---- MODULE Spec2Model ----
(***************************************************************************)
(* Orchestration layer of the sticker backend: the job table, the priority *)
(* queue, the segmentation worker, the dedup index, the durable snapshots  *)
(* and the clustering trigger (src/backend/state.py, worker.py, main.py,   *)
(* clustering.py).                                                         *)
(*                                                                         *)
(* Scheduling follows asyncio: one event loop, a coroutine runs without    *)
(* interruption until it awaits something that is not ready.  The worker   *)
(* suspends in queue.get() on an empty queue (pc = "wait") and in          *)
(* run_in_executor (pc = "segment"); between the end of one loop iteration *)
(* and the next queue.get() on a non-empty queue it does not suspend       *)
(* (pc = "pop"), so no request handler runs there.  pc = "dead" is the     *)
(* worker coroutine left by an exception.                                  *)
(*                                                                         *)
(* A job record keeps the fields the control flow reads or writes (status, *)
(* result_paths, overlay_path, error) and image_path, which stands for the *)
(* content hash of the uploaded image; created_at, metadata and the two    *)
(* thresholds of the record are written once and never read by the         *)
(* modelled code: the thresholds that decide reuse are those of the dedup  *)
(* record.  result_paths is the number of stickers.  File writes are taken *)
(* to succeed, and the process is taken to die between handlers, not       *)
(* inside one.                                                             *)
(***************************************************************************)
EXTENDS Integers, Sequences, FiniteSets, TLC

\* ---------------------------------------------------------------- bounds
MaxRequests == 3    \* client requests and restarts over a run
MaxClock == 1       \* the clock readings are 0..MaxClock
MaxRuns == 2        \* clustering runs scheduled or in progress at one time
MaxResults == 1     \* stickers one segmentation call extracts

\* uuid4 never repeats an id: job ids are handed out in increasing order
JobIds == 1..MaxRequests
NoId == 0
Hashes == {"h1"}
NoHash == "nohash"
\* the value None: what dict.get answers on a miss and what delete_task
\* leaves under a fingerprint
None == [task_id |-> 0, iou |-> 0, score |-> 0]
Priorities == {0, 1, 2}
DefaultPriority == 2
NoPriority == 3
IouValues == {5, 8}
ScoreValues == {5, 6}
\* the vectors the embedding service returns, and the row of np.zeros
Vectors == {1, 2}
ZeroVector == 0
\* the labels HDBSCAN gives, Unclustered for noise
Unclustered == -1
LabelValues == {-1, 0, 1}
\* state.cluster_results: nothing loaded, and the result over no sticker
NoResult ==
    [groups |-> <<>>, ungrouped |-> <<>>, total_grouped |-> -1,
     total_ungrouped |-> -1]
EmptyResult ==
    [groups |-> <<>>, ungrouped |-> <<>>, total_grouped |-> 0,
     total_ungrouped |-> 0]

VARIABLES
    tasks,              \* state.tasks: id -> SegmentationTask
    queue,              \* state.queue._queue: the heap list of QueueItem
    unfinished_tasks,   \* state.queue._unfinished_tasks
    clock,              \* the reading time.time() returns
    nextId,             \* ids uuid4 has handed out so far
    pc,                 \* where the worker coroutine is
    cur,                \* the job the worker passed to the segmentator
    file_hashes,        \* state.file_hashes
    hash_db,            \* hash_db.json
    tasks_db,           \* tasks.json
    results_dir,        \* static/results exists
    stickers,           \* jobs whose result directory holds sticker files
    clustering_status,  \* state.clustering_progress["status"]
    aggSpawned,         \* run_clustering_task coroutines scheduled, not begun
    aggRunning,         \* run_clustering_task coroutines suspended in a run
    requests,           \* client requests and restarts so far
    resp,               \* the last request and its answer
    runs,               \* the run_clustering_task coroutines suspended
    embedding_cache,    \* state.embedding_cache: path -> vector
    embedding_cache_db, \* embedding_cache.pkl
    cluster_results,    \* state.cluster_results
    cluster_results_db, \* cluster_results.json
    clustering_progress \* state.clustering_progress: total and current

vars == <<tasks, queue, unfinished_tasks, clock, nextId, pc, cur, file_hashes,
          hash_db, tasks_db, results_dir, stickers, clustering_status,
          aggSpawned, aggRunning, requests, resp,
         runs, embedding_cache, embedding_cache_db, cluster_results,
         cluster_results_db, clustering_progress>>

\* what the clustering runs read and write
clusterVars == <<runs, embedding_cache, embedding_cache_db, cluster_results,
                 cluster_results_db, clustering_progress>>

\* ------------------------------------------------------- QueueItem, heapq
QueueItem(p, t, id) == [priority |-> p, timestamp |-> t, task_id |-> id]

\* the comparison with the priority left out, as a bug would have it
LessByTimestamp(a, b) == a.timestamp < b.timestamp

\* dataclass(order=True): tuples (priority, timestamp) compared, task_id not
Less(a, b) ==
    \/ a.priority < b.priority
    \/ a.priority = b.priority /\ a.timestamp < b.timestamp

\* heapq._siftdown, positions 0-based as in the list
RECURSIVE SiftDown(_, _, _, _)
SiftDown(h, startpos, pos, newitem) ==
    IF pos > startpos /\ Less(newitem, h[((pos - 1) \div 2) + 1])
    THEN SiftDown([h EXCEPT ![pos + 1] = h[((pos - 1) \div 2) + 1]],
                  startpos, (pos - 1) \div 2, newitem)
    ELSE [h EXCEPT ![pos + 1] = newitem]

\* heapq._siftup: bubble the smaller child up to a leaf, then sift down
RECURSIVE SiftUp(_, _, _)
SiftUp(h, pos, newitem) ==
    LET endpos == Len(h)
        childpos == 2 * pos + 1
        rightpos == childpos + 1
        c == IF rightpos < endpos /\ ~Less(h[childpos + 1], h[rightpos + 1])
             THEN rightpos ELSE childpos
    IN  IF childpos < endpos
        THEN SiftUp([h EXCEPT ![pos + 1] = h[c + 1]], c, newitem)
        ELSE SiftDown([h EXCEPT ![pos + 1] = newitem], 0, pos, newitem)

\* heapq.heappush
HeapPush(h, item) == SiftDown(Append(h, item), 0, Len(h), item)

\* heapq.heappop: the item returned and the list left
HeapTop(h) == h[1]

HeapPop(h) ==
    LET lastelt == h[Len(h)]
        rest == SubSeq(h, 1, Len(h) - 1)
    IN  IF rest = <<>> THEN rest ELSE SiftUp(rest, 0, lastelt)

\* ------------------------------------------------------------- job records
SegmentationTask(image) ==
    [status |-> "pending", result_paths |-> 0, overlay_path |-> FALSE,
     error |-> "none", image_path |-> image]

InStore(id) == id \in DOMAIN tasks

\* dict without a key
Without(d, k) == [x \in DOMAIN d \ {k} |-> d[x]]

\* the request op with priority p, its answer result about job id, and the
\* dedup record (existing_data) the handler found
Response(op, id, result, p, found) ==
    [op |-> op, task_id |-> id, result |-> result, priority |-> p,
     found |-> found]

\* add_task that takes the earlier entries of the job out of the queue, as a
\* replacing push would
AddTaskReplacing(s, id, p, now) ==
    IF id \in DOMAIN s.tasks /\ s.tasks[id].status \in {"completed", "processing"}
    THEN s
    ELSE [tasks |-> IF id \in DOMAIN s.tasks
                    THEN [s.tasks EXCEPT ![id].status = "pending"]
                    ELSE s.tasks,
          queue |-> HeapPush(SelectSeq(s.queue, LAMBDA x : x.task_id # id),
                             QueueItem(p, now, id)),
          unfinished_tasks |-> s.unfinished_tasks + 1]

\* add_task without its guard: every call pushes an entry and makes a stored
\* job pending
AddTaskUnguarded(s, id, p, now) ==
    [tasks |-> IF id \in DOMAIN s.tasks
               THEN [s.tasks EXCEPT ![id].status = "pending"]
               ELSE s.tasks,
     queue |-> HeapPush(s.queue, QueueItem(p, now, id)),
     unfinished_tasks |-> s.unfinished_tasks + 1]

\* add_task that makes a failed job pending again and pushes no entry for it
AddTaskNoPush(s, id, p, now) ==
    IF id \in DOMAIN s.tasks /\ s.tasks[id].status \in {"completed", "processing"}
    THEN s
    ELSE IF id \in DOMAIN s.tasks /\ s.tasks[id].status = "failed"
    THEN [s EXCEPT !.tasks[id].status = "pending"]
    ELSE [tasks |-> s.tasks,
          queue |-> HeapPush(s.queue, QueueItem(p, now, id)),
          unfinished_tasks |-> s.unfinished_tasks + 1]

\* ----------------------------------------------------------------- add_task
\* s = [tasks, queue, unfinished_tasks]; now = the reading of time.time()
AddTask(s, id, p, now) ==
    IF id \in DOMAIN s.tasks /\ s.tasks[id].status \in {"completed", "processing"}
    THEN s
    ELSE [tasks |-> IF id \in DOMAIN s.tasks
                    THEN [s.tasks EXCEPT ![id].status = "pending"]
                    ELSE s.tasks,
          queue |-> HeapPush(s.queue, QueueItem(p, now, id)),
          unfinished_tasks |-> s.unfinished_tasks + 1]

Live == [tasks |-> tasks, queue |-> queue,
         unfinished_tasks |-> unfinished_tasks]

\* no coroutine other than the worker runs while the worker is between awaits
Yielded == pc # "pop"

\* the fields total and current of state.clustering_progress
Progress(total, current) == [total |-> total, current |-> current]

\* --------------------------------------------------------------------- Init
\* a fresh install: no snapshot on disk, the worker started by lifespan
Init ==
    /\ tasks = <<>>
    /\ queue = <<>>
    /\ unfinished_tasks = 0
    /\ clock = 0
    /\ nextId = 0
    /\ pc = "pop"
    /\ cur = NoId
    /\ file_hashes = <<>>
    /\ hash_db = <<>>
    /\ tasks_db = <<>>
    /\ results_dir = FALSE
    /\ stickers = {}
    /\ clustering_status = "idle"
    /\ aggSpawned = 0
    /\ aggRunning = 0
    /\ requests = 0
    /\ resp = Response("none", NoId, "none", NoPriority, None)
    /\ runs = <<>>
    /\ embedding_cache = <<>>
    /\ embedding_cache_db = <<>>
    /\ cluster_results = NoResult
    /\ cluster_results_db = NoResult
    /\ clustering_progress = Progress(0, 0)

\* time.time() is non-decreasing: successive readings may be equal
Tick ==
    /\ UNCHANGED clusterVars
    /\ clock < MaxClock
    /\ clock' = clock + 1
    /\ UNCHANGED <<tasks, queue, unfinished_tasks, nextId, pc, cur,
                   file_hashes, hash_db, tasks_db, results_dir, stickers,
                   clustering_status, aggSpawned, aggRunning, requests, resp>>

\* ------------------------------------------------------ create_segment_task
\* save_hash: upsert
SaveHash(d, h, data) ==
    [x \in DOMAIN d \cup {h} |-> IF x = h THEN data ELSE d[x]]

\* the lookup that finds no record
ExistingDataNone(h) == None

\* state.file_hashes.get(req.file_hash) when a hash is given
ExistingData(h) ==
    IF h # NoHash /\ h \in DOMAIN file_hashes THEN file_hashes[h] ELSE None

\* the reuse check with the score threshold left out, as a bug would have it
ReusableIgnoringScore(h, iou, score) ==
    LET existing_data == ExistingData(h) IN
    IF existing_data = None THEN NoId
    ELSE IF existing_data.iou = iou /\ InStore(existing_data.task_id)
         THEN existing_data.task_id
         ELSE NoId

\* the reuse check without the look into the job store: a record with the
\* same thresholds is answered with its job
ReusableUnchecked(h, iou, score) ==
    LET existing_data == ExistingData(h) IN
    IF existing_data = None THEN NoId
    ELSE IF /\ existing_data.iou = iou
            /\ existing_data.score = score
         THEN existing_data.task_id
         ELSE NoId

\* the job id the reuse check of create_segment_task answers with, NoId when
\* a new job is to be created
Reusable(h, iou, score) ==
    LET existing_data == ExistingData(h) IN
    IF existing_data = None THEN NoId
    ELSE IF /\ existing_data.iou = iou
            /\ existing_data.score = score
            /\ InStore(existing_data.task_id)
         THEN existing_data.task_id
         ELSE NoId

create_segment_task(h, iou, score, p) ==
    /\ UNCHANGED clusterVars
    /\ Yielded
    /\ requests < MaxRequests
    /\ requests' = requests + 1
    /\ IF Reusable(h, iou, score) # NoId
       THEN /\ resp' = Response("submit", Reusable(h, iou, score), "reused",
                                p, ExistingData(h))
            /\ UNCHANGED <<tasks, queue, unfinished_tasks, nextId,
                           file_hashes, hash_db, tasks_db>>
       ELSE LET task_id == nextId + 1
                created == [Live EXCEPT
                              !.tasks = tasks @@ (task_id :> SegmentationTask(h))]
                s == AddTask(created, task_id, p, clock)
                hashes == IF h = NoHash THEN file_hashes
                          ELSE SaveHash(file_hashes, h,
                                        [task_id |-> task_id, iou |-> iou,
                                         score |-> score])
            IN  /\ nextId' = task_id
                /\ tasks' = s.tasks
                /\ queue' = s.queue
                /\ unfinished_tasks' = s.unfinished_tasks
                /\ file_hashes' = hashes
                /\ hash_db' = IF h = NoHash THEN hash_db ELSE hashes
                /\ tasks_db' = s.tasks
                /\ resp' = Response("submit", task_id, "queued", p,
                                    ExistingData(h))
    /\ UNCHANGED <<clock, pc, cur, results_dir, stickers, clustering_status,
                   aggSpawned, aggRunning>>

\* ---------------------------------------------------------- update_priority
update_priority(id, p) ==
    /\ UNCHANGED clusterVars
    /\ Yielded
    /\ requests < MaxRequests
    /\ requests' = requests + 1
    /\ IF InStore(id)
       THEN /\ LET s == AddTask(Live, id, p, clock)
               IN  /\ tasks' = s.tasks
                   /\ queue' = s.queue
                   /\ unfinished_tasks' = s.unfinished_tasks
            /\ resp' = Response("priority", id, "updated", p, None)
       ELSE /\ resp' = Response("priority", id, "not_found", p, None)
            /\ UNCHANGED <<tasks, queue, unfinished_tasks>>
    /\ UNCHANGED <<clock, nextId, pc, cur, file_hashes, hash_db, tasks_db,
                   results_dir, stickers, clustering_status, aggSpawned,
                   aggRunning>>

\* -------------------------------------------------------------- delete_task
\* the fingerprints whose record points at the job: create_segment_task
\* records a new id under one fingerprint, so there is one at most
HashOf(id) == {h \in DOMAIN file_hashes : file_hashes[h].task_id = id}

\* step 2 of delete_task left out, as a bug would have it
HashesKeptOnDelete(id) == file_hashes

\* step 2 of delete_task: del, then save_hash(hash_to_remove, None)
HashesAfterDelete(id) ==
    IF HashOf(id) # {}
    THEN LET hash_to_remove == CHOOSE h \in HashOf(id) : TRUE
         IN  SaveHash(Without(file_hashes, hash_to_remove), hash_to_remove,
                      None)
    ELSE file_hashes

\* step 3 of delete_task left out
TasksKeptOnDelete(id) == tasks

\* step 3 of delete_task: del self.tasks[task_id]
TasksAfterDelete(id) == Without(tasks, id)

\* the vectors of the stickers of the job pruned with it
CachePrunedOnDelete(id) == Without(embedding_cache, id)

\* delete_task does not touch state.embedding_cache
CacheAfterDelete(id) == embedding_cache

delete_task(id) ==
    /\ embedding_cache' = CacheAfterDelete(id)
    /\ UNCHANGED <<runs, embedding_cache_db, cluster_results,
                   cluster_results_db, clustering_progress>>
    /\ Yielded
    /\ requests < MaxRequests
    /\ requests' = requests + 1
    /\ IF ~InStore(id)
       THEN /\ resp' = Response("delete", id, "not_found", NoPriority, None)
            /\ UNCHANGED <<tasks, file_hashes, hash_db, tasks_db, stickers>>
       ELSE /\ stickers' = IF tasks[id].result_paths > 0
                           THEN stickers \ {id} ELSE stickers
            /\ file_hashes' = HashesAfterDelete(id)
            /\ hash_db' = IF HashOf(id) # {} THEN file_hashes' ELSE hash_db
            /\ tasks' = TasksAfterDelete(id)
            /\ tasks_db' = tasks'
            /\ resp' = Response("delete", id, "deleted", NoPriority, None)
    /\ UNCHANGED <<queue, unfinished_tasks, clock, nextId, pc, cur,
                   results_dir, clustering_status, aggSpawned, aggRunning>>

\* ------------------------------------------------------ segmentation_worker
\* queue.task_done() raises ValueError when no put is left to account for
TaskDoneRaises(u) == u <= 0

\* the finally block (worker.py 93-106) entered with u unfinished puts, the job
\* table t and the heap q: task_done, then the check for completion.  When
\* task_done raises there, the exception leaves the coroutine.
Finally(u, t, q) ==
    IF TaskDoneRaises(u)
    THEN /\ pc' = "dead"
         /\ unfinished_tasks' = u
         /\ UNCHANGED aggSpawned
    ELSE /\ pc' = "pop"
         /\ unfinished_tasks' = u - 1
         /\ IF q = <<>> /\ {id \in DOMAIN t : t[id].status = "processing"} = {}
            THEN /\ aggSpawned + aggRunning < MaxRuns
                 /\ aggSpawned' = aggSpawned + 1
            ELSE UNCHANGED aggSpawned

\* the except block that stores the message and leaves the status as it is
FailedKeepsStatus(t, id, msg) ==
    IF id \in DOMAIN t
    THEN [t EXCEPT ![id].error = msg]
    ELSE t

\* the except block that stores the job it holds under its id again
FailedStoredAgain(t, id, msg) ==
    t @@ (id :> [SegmentationTask(NoHash) EXCEPT !.error = msg,
                                                  !.status = "failed"])

\* the except Exception block (worker.py 83-92) on the job the worker holds;
\* a job deleted meanwhile is an object the table no longer holds
Failed(t, id, msg) ==
    IF id \in DOMAIN t
    THEN [t EXCEPT ![id].error = msg, ![id].status = "failed"]
    ELSE t

\* the check that lets the entry of a removed job through
TakesRemoved(task_id) ==
    ~InStore(task_id) \/ tasks[task_id].status = "pending"

\* the two checks of the worker on the entry it has dequeued: the job is in
\* the store and it is pending (worker.py 17-26)
Takes(task_id) == InStore(task_id) /\ tasks[task_id].status = "pending"

\* queue.get() on an empty queue suspends the worker
segmentation_worker_wait ==
    /\ UNCHANGED clusterVars
    /\ pc = "pop"
    /\ queue = <<>>
    /\ pc' = "wait"
    /\ UNCHANGED <<tasks, queue, unfinished_tasks, clock, nextId, cur,
                   file_hashes, hash_db, tasks_db, results_dir, stickers,
                   clustering_status, aggSpawned, aggRunning, requests, resp>>

\* one loop iteration from queue.get() to the next suspension or to the end
\* of the iteration (worker.py 13-58, 83-106)
segmentation_worker_get ==
    /\ UNCHANGED clusterVars
    /\ pc \in {"pop", "wait"}
    /\ queue # <<>>
    /\ LET item == HeapTop(queue)
           task_id == item.task_id
       IN  /\ queue' = HeapPop(queue)
           /\ IF Takes(task_id)
              THEN /\ tasks' = [tasks EXCEPT ![task_id].status = "processing"]
                   /\ results_dir' = TRUE
                   /\ pc' = "segment"
                   /\ cur' = task_id
                   /\ UNCHANGED <<unfinished_tasks, aggSpawned>>
              ELSE \* task removed, or already done: task_done() and continue,
                   \* and the finally block runs on the way out
                   /\ IF TaskDoneRaises(unfinished_tasks)
                      THEN /\ tasks' = Failed(tasks, task_id, "task_done")
                           /\ Finally(unfinished_tasks, tasks', queue')
                      ELSE /\ tasks' = tasks
                           /\ Finally(unfinished_tasks - 1, tasks', queue')
                   /\ UNCHANGED <<results_dir, cur>>
    /\ UNCHANGED <<clock, nextId, file_hashes, hash_db, tasks_db, stickers,
                   clustering_status, aggRunning, requests, resp>>

\* the segmentator returns n stickers and, when overlay, an overlay image
\* (worker.py 60-77, then the finally block)
segment_returns(n, overlay) ==
    /\ UNCHANGED clusterVars
    /\ pc = "segment"
    /\ tasks' = IF InStore(cur)
                THEN [tasks EXCEPT ![cur].result_paths = n,
                                   ![cur].overlay_path = overlay,
                                   ![cur].status = "completed"]
                ELSE tasks
    /\ tasks_db' = tasks'
    /\ stickers' = IF n > 0 THEN stickers \cup {cur} ELSE stickers
    /\ cur' = NoId
    /\ Finally(unfinished_tasks, tasks', queue)
    /\ UNCHANGED <<queue, clock, nextId, file_hashes, hash_db, results_dir,
                   clustering_status, aggRunning, requests, resp>>

\* the segmentator raises, or returns the bare list that cannot be unpacked
\* (worker.py 83-92, then the finally block)
segment_raises ==
    /\ UNCHANGED clusterVars
    /\ pc = "segment"
    /\ tasks' = Failed(tasks, cur, "segment")
    /\ cur' = NoId
    /\ Finally(unfinished_tasks, tasks', queue)
    /\ UNCHANGED <<queue, clock, nextId, file_hashes, hash_db, tasks_db,
                   results_dir, stickers, clustering_status, aggRunning,
                   requests, resp>>

\* ----------------------------------------------------- restart and lifespan
\* the loop body without the reset of the status, as a bug would have it
RequeueOneNoReset(s, task_id, now) ==
    IF s.tasks[task_id].status \in {"pending", "processing"}
    THEN AddTask(s, task_id, DefaultPriority, now)
    ELSE s

\* the loop body without the test of the status, as a bug would have it
RequeueOneAlways(s, task_id, now) ==
    AddTask([s EXCEPT !.tasks[task_id].status = "pending"],
            task_id, DefaultPriority, now)

\* the body of the loop of lifespan (main.py 61-67)
RequeueOne(s, task_id, now) ==
    IF s.tasks[task_id].status \in {"pending", "processing"}
    THEN AddTask([s EXCEPT !.tasks[task_id].status = "pending"],
                 task_id, DefaultPriority, now)
    ELSE s

\* the loop of lifespan over the ids from position k on; the add_task of
\* position k reads the clock at now[k]
RECURSIVE Requeue(_, _, _, _)
Requeue(s, ids, now, k) ==
    IF k > Len(ids) THEN s
    ELSE Requeue(RequeueOne(s, ids[k], now[k]), ids, now, k + 1)

\* the keys of a dict in insertion order: ids are created in increasing order
RECURSIVE KeysInOrder(_)
KeysInOrder(S) ==
    IF S = {} THEN <<>>
    ELSE LET m == CHOOSE x \in S : \A y \in S : x <= y
         IN  <<m>> \o KeysInOrder(S \ {m})

\* n successive readings of the clock
Readings(n) ==
    {f \in [1..n -> clock..MaxClock] : \A k \in 1..(n - 1) : f[k] <= f[k + 1]}

\* the process dies and starts again: state.py 256-258 loads the snapshots,
\* lifespan re-queues and starts the worker
lifespan ==
    /\ requests < MaxRequests
    /\ requests' = requests + 1
    /\ LET ids == KeysInOrder(DOMAIN tasks_db) IN
       \E now \in Readings(Len(ids)) :
         LET s == Requeue([tasks |-> tasks_db, queue |-> <<>>,
                           unfinished_tasks |-> 0], ids, now, 1)
         IN  /\ tasks' = s.tasks
             /\ queue' = s.queue
             /\ unfinished_tasks' = s.unfinished_tasks
             /\ clock' = IF ids = <<>> THEN clock ELSE now[Len(ids)]
    /\ file_hashes' = hash_db
    /\ pc' = "pop"
    /\ cur' = NoId
    /\ clustering_status' = "idle"
    /\ aggSpawned' = 0
    /\ aggRunning' = 0
    /\ resp' = Response("startup", NoId, "none", NoPriority, None)
    /\ runs' = <<>>
    /\ embedding_cache' = embedding_cache_db
    /\ cluster_results' = cluster_results_db
    /\ clustering_progress' = Progress(0, 0)
    /\ UNCHANGED <<nextId, hash_db, tasks_db, results_dir, stickers,
                   embedding_cache_db, cluster_results_db>>

\* the process starts again and tasks.json is not there: _load_tasks answers
\* the empty store (state.py 229-242) while the dedup index, the feature cache
\* and the last clustering result are loaded from their own files; the first
\* save_tasks_db writes the file anew
lifespan_without_tasks_db ==
    /\ requests < MaxRequests
    /\ requests' = requests + 1
    /\ tasks_db # <<>>
    /\ tasks' = <<>>
    /\ tasks_db' = <<>>
    /\ queue' = <<>>
    /\ unfinished_tasks' = 0
    /\ file_hashes' = hash_db
    /\ pc' = "pop"
    /\ cur' = NoId
    /\ clustering_status' = "idle"
    /\ aggSpawned' = 0
    /\ aggRunning' = 0
    /\ resp' = Response("startup", NoId, "none", NoPriority, None)
    /\ runs' = <<>>
    /\ embedding_cache' = embedding_cache_db
    /\ cluster_results' = cluster_results_db
    /\ clustering_progress' = Progress(0, 0)
    /\ UNCHANGED <<clock, nextId, hash_db, results_dir, stickers,
                   embedding_cache_db, cluster_results_db>>

\* ------------------------------------------- clustering trigger and its runs
\* the check left out: every trigger schedules a run
AlreadyRunningNever == FALSE

\* the check of trigger_clustering (main.py 268)
AlreadyRunning == clustering_status = "running"

\* trigger_clustering: the run is a background task that begins later
trigger_clustering ==
    /\ Yielded
    /\ requests < MaxRequests
    /\ requests' = requests + 1
    /\ IF AlreadyRunning
       THEN /\ resp' = Response("cluster", NoId, "already_running",
                                NoPriority, None)
            /\ UNCHANGED aggSpawned
       ELSE /\ aggSpawned + aggRunning < MaxRuns
            /\ aggSpawned' = aggSpawned + 1
            /\ resp' = Response("cluster", NoId, "started", NoPriority, None)
    /\ UNCHANGED <<tasks, queue, unfinished_tasks, clock, nextId, pc, cur,
                   file_hashes, hash_db, tasks_db, results_dir, stickers,
                   clustering_status, aggRunning>>
    /\ UNCHANGED clusterVars

\* organize_clusters (clustering.py 87-127): label_to_paths keeps the labels
\* in the order of their first occurrence
RECURSIVE LabelOrder(_, _)
LabelOrder(labels, seen) ==
    IF labels = <<>> THEN <<>>
    ELSE LET l == Head(labels) IN
         IF l = Unclustered \/ l \in seen
         THEN LabelOrder(Tail(labels), seen)
         ELSE <<l>> \o LabelOrder(Tail(labels), seen \cup {l})

\* the paths that carry label l, in the order of the list
RECURSIVE PathsLabelled(_, _, _)
PathsLabelled(sticker_paths, labels, l) ==
    IF sticker_paths = <<>> THEN <<>>
    ELSE (IF Head(labels) = l THEN <<Head(sticker_paths)>> ELSE <<>>)
         \o PathsLabelled(Tail(sticker_paths), Tail(labels), l)

\* sorted(..., key=lambda x: -len(x[1])) is stable: a group goes behind every
\* group that is at least as large
RECURSIVE InsertBySize(_, _)
InsertBySize(sorted, g) ==
    IF sorted = <<>> THEN <<g>>
    ELSE IF Head(sorted).count >= g.count
         THEN <<Head(sorted)>> \o InsertBySize(Tail(sorted), g)
         ELSE <<g>> \o sorted

RECURSIVE SortedBySize(_, _)
SortedBySize(gs, sorted) ==
    IF gs = <<>> THEN sorted
    ELSE SortedBySize(Tail(gs), InsertBySize(sorted, Head(gs)))

\* the sum that stops at the first, the largest, group
SumCountsOfLargest(gs) == IF gs = <<>> THEN 0 ELSE Head(gs).count

\* sum(g["count"] for g in groups)
RECURSIVE SumCounts(_)
SumCounts(gs) == IF gs = <<>> THEN 0 ELSE Head(gs).count + SumCounts(Tail(gs))

organize_clusters(sticker_paths, labels) ==
    LET order == LabelOrder(labels, {})
        unsorted == [k \in 1..Len(order) |->
                       LET paths == PathsLabelled(sticker_paths, labels, order[k])
                       IN  [id |-> order[k], sticker_paths |-> paths,
                            count |-> Len(paths)]]
        groups == SortedBySize(unsorted, <<>>)
        ungrouped == PathsLabelled(sticker_paths, labels, Unclustered)
    IN  [groups |-> groups, ungrouped |-> ungrouped,
         total_grouped |-> SumCounts(groups),
         total_ungrouped |-> Len(ungrouped)]

\* cluster_embeddings (clustering.py 40-84): fewer than two rows are all
\* unclustered; otherwise the labels are those HDBSCAN finds
Labels(n) ==
    IF n < 2 THEN {[k \in 1..n |-> Unclustered]} ELSE [1..n -> LabelValues]

\* sequence without its r-th element
RemoveAt(s, r) == [k \in 1..(Len(s) - 1) |-> IF k < r THEN s[k] ELSE s[k + 1]]

\* the position of path p in the list
IndexOf(sticker_paths, p) ==
    CHOOSE i \in 1..Len(sticker_paths) : sticker_paths[i] = p

\* a run suspended in an executor call: where it is and its local variables;
\* before is the stored result, in memory and on disk, when the run began
Run(at, sticker_paths, paths_to_compute, final_embeddings, labels) ==
    [pc |-> at, sticker_paths |-> sticker_paths,
     paths_to_compute |-> paths_to_compute,
     final_embeddings |-> final_embeddings, labels |-> labels,
     before |-> <<cluster_results, cluster_results_db>>, done |-> 0]

\* the cache check left out: every path is computed again
MissingAlways(p) == TRUE

\* path p has no vector in the cache (clustering.py 185)
Missing(p) == p \notin DOMAIN embedding_cache

\* the early return over no sticker left out
NoStickerNever == FALSE

\* os.walk finds no sticker file (clustering.py 154-162)
NoSticker == stickers = {}

\* run_clustering_task from its first line to its first await
\* (clustering.py 139-211 when an embedding is missing, 139-233 otherwise)
run_clustering_task_begin ==
    /\ Yielded
    /\ aggSpawned > 0
    /\ aggSpawned' = aggSpawned - 1
    /\ IF ~results_dir
       THEN /\ clustering_status' = "failed"
            /\ UNCHANGED <<aggRunning, runs, cluster_results,
                           clustering_progress>>
       ELSE IF NoSticker
       THEN /\ clustering_status' = "completed"
            /\ clustering_progress' = Progress(0, 0)
            /\ cluster_results' = EmptyResult
            /\ UNCHANGED <<aggRunning, runs>>
       ELSE LET sticker_paths == KeysInOrder(stickers)
                final_embeddings ==
                    [i \in 1..Len(sticker_paths) |->
                       IF ~Missing(sticker_paths[i])
                       THEN embedding_cache[sticker_paths[i]]
                       ELSE ZeroVector]
                paths_to_compute == SelectSeq(sticker_paths, Missing)
            IN  /\ clustering_status' = "running"
                /\ clustering_progress' =
                       Progress(Len(sticker_paths),
                                Len(sticker_paths) - Len(paths_to_compute))
                /\ aggRunning' = aggRunning + 1
                /\ runs' = Append(runs,
                       Run(IF paths_to_compute # <<>> THEN "embed"
                                                      ELSE "hdbscan",
                           sticker_paths, paths_to_compute, final_embeddings,
                           <<>>))
                /\ UNCHANGED cluster_results
    /\ UNCHANGED <<tasks, queue, unfinished_tasks, clock, nextId, pc, cur,
                   file_hashes, hash_db, tasks_db, results_dir, stickers,
                   requests, resp, embedding_cache, embedding_cache_db,
                   cluster_results_db>>

\* the progress callback of get_embeddings_batch, called in the executor
\* thread after each batch with the count c of the rows done so far
\* (clustering.py 203-209, embeddings.py 123-154)
progress_callback(r, c) ==
    /\ r \in 1..Len(runs)
    /\ runs[r].pc = "embed"
    /\ c \in (runs[r].done + 1)..Len(runs[r].paths_to_compute)
    /\ runs' = [runs EXCEPT ![r].done = c]
    /\ clustering_progress' =
         [clustering_progress EXCEPT
            !.current = (Len(runs[r].sticker_paths)
                           - Len(runs[r].paths_to_compute)) + c]
    /\ UNCHANGED <<tasks, queue, unfinished_tasks, clock, nextId, pc, cur,
                   file_hashes, hash_db, tasks_db, results_dir, stickers,
                   clustering_status, aggSpawned, aggRunning, requests, resp,
                   embedding_cache, embedding_cache_db, cluster_results,
                   cluster_results_db>>

\* get_embeddings_batch has returned computed, one vector for each missing
\* path: the vectors go into the matrix and into the cache
\* (clustering.py 211-220)
run_clustering_task_embedded(r, computed) ==
    /\ Yielded
    /\ r \in 1..Len(runs)
    /\ runs[r].pc = "embed"
    /\ runs[r].done = Len(runs[r].paths_to_compute)
    /\ LET run == runs[r]
           At(k) == IndexOf(run.sticker_paths, run.paths_to_compute[k])
           IsAt(i) == {k \in 1..Len(run.paths_to_compute) : At(k) = i}
           final_embeddings ==
               [i \in 1..Len(run.sticker_paths) |->
                  IF IsAt(i) # {} THEN computed[CHOOSE k \in IsAt(i) : TRUE]
                  ELSE run.final_embeddings[i]]
           Computed(p) == {k \in 1..Len(run.paths_to_compute) :
                             run.paths_to_compute[k] = p}
       IN  /\ runs' = [runs EXCEPT ![r].pc = "save",
                                   ![r].final_embeddings = final_embeddings]
           /\ embedding_cache' =
                [p \in DOMAIN embedding_cache
                         \cup {run.paths_to_compute[k] :
                                 k \in 1..Len(run.paths_to_compute)} |->
                   IF Computed(p) # {}
                   THEN computed[CHOOSE k \in Computed(p) : TRUE]
                   ELSE embedding_cache[p]]
    /\ UNCHANGED <<tasks, queue, unfinished_tasks, clock, nextId, pc, cur,
                   file_hashes, hash_db, tasks_db, results_dir, stickers,
                   clustering_status, aggSpawned, aggRunning, requests, resp,
                   embedding_cache_db, cluster_results, cluster_results_db,
                   clustering_progress>>

\* save_embedding_cache has returned (clustering.py 220-233)
run_clustering_task_saved(r) ==
    /\ Yielded
    /\ r \in 1..Len(runs)
    /\ runs[r].pc = "save"
    /\ runs' = [runs EXCEPT ![r].pc = "hdbscan"]
    /\ embedding_cache_db' = embedding_cache
    /\ UNCHANGED <<tasks, queue, unfinished_tasks, clock, nextId, pc, cur,
                   file_hashes, hash_db, tasks_db, results_dir, stickers,
                   clustering_status, aggSpawned, aggRunning, requests, resp,
                   embedding_cache, cluster_results, cluster_results_db,
                   clustering_progress>>

\* cluster_embeddings has returned labels (clustering.py 233-237)
run_clustering_task_clustered(r, labels) ==
    /\ Yielded
    /\ r \in 1..Len(runs)
    /\ runs[r].pc = "hdbscan"
    /\ labels \in Labels(Len(runs[r].sticker_paths))
    /\ runs' = [runs EXCEPT ![r].pc = "projection", ![r].labels = labels]
    /\ UNCHANGED <<tasks, queue, unfinished_tasks, clock, nextId, pc, cur,
                   file_hashes, hash_db, tasks_db, results_dir, stickers,
                   clustering_status, aggSpawned, aggRunning, requests, resp,
                   embedding_cache, embedding_cache_db, cluster_results,
                   cluster_results_db,
                   clustering_progress>>

\* get_projection has returned: run r assembles the result, stores and saves
\* it (clustering.py 237-260)
RunEnds(r) ==
    /\ runs[r].pc = "projection"
    /\ LET result == organize_clusters(runs[r].sticker_paths, runs[r].labels)
       IN  /\ cluster_results' = result
           /\ cluster_results_db' = result
    /\ runs' = RemoveAt(runs, r)
    /\ aggRunning' = aggRunning - 1
    /\ clustering_status' = "completed"

\* a run reaches its last line
run_clustering_task_end ==
    /\ Yielded
    /\ aggRunning > 0
    /\ \E r \in 1..Len(runs) : RunEnds(r)
    /\ UNCHANGED <<tasks, queue, unfinished_tasks, clock, nextId, pc, cur,
                   file_hashes, hash_db, tasks_db, results_dir, stickers,
                   aggSpawned, requests, resp, embedding_cache,
                   embedding_cache_db,
                   clustering_progress>>

\* the executor call run r waits for raises (clustering.py 263-267)
RunRaises(r) ==
    /\ runs' = RemoveAt(runs, r)
    /\ aggRunning' = aggRunning - 1
    /\ clustering_status' = "failed"

\* a collaborator of a run raises
run_clustering_task_raises ==
    /\ Yielded
    /\ aggRunning > 0
    /\ \E r \in 1..Len(runs) : RunRaises(r)
    /\ UNCHANGED <<tasks, queue, unfinished_tasks, clock, nextId, pc, cur,
                   file_hashes, hash_db, tasks_db, results_dir, stickers,
                   aggSpawned, requests, resp, embedding_cache,
                   embedding_cache_db, cluster_results, cluster_results_db,
                   clustering_progress>>

\* ----------------------------------------------------------- specifications
\* the steps of the worker and of the clustering runs
Worker ==
    \/ segmentation_worker_wait
    \/ segmentation_worker_get
    \/ \E n \in 0..MaxResults, overlay \in BOOLEAN :
          (overlay \/ n = 0) /\ segment_returns(n, overlay)
    \/ segment_raises

Clustering ==
    \/ trigger_clustering
    \/ run_clustering_task_begin
    \/ \E r \in 1..Len(runs) :
          \E c \in 1..Len(runs[r].paths_to_compute) : progress_callback(r, c)
    \/ \E r \in 1..Len(runs) :
          \E computed \in [1..Len(runs[r].paths_to_compute) -> Vectors] :
             run_clustering_task_embedded(r, computed)
    \/ \E r \in 1..Len(runs) : run_clustering_task_saved(r)
    \/ \E r \in 1..Len(runs) :
          \E labels \in Labels(Len(runs[r].sticker_paths)) :
             run_clustering_task_clustered(r, labels)
    \/ run_clustering_task_end
    \/ run_clustering_task_raises

\* every operation with every input
Next ==
    \/ Tick
    \/ \E h \in Hashes \cup {NoHash}, iou \in IouValues, score \in ScoreValues,
          p \in Priorities : create_segment_task(h, iou, score, p)
    \/ \E id \in JobIds, p \in Priorities : update_priority(id, p)
    \/ \E id \in JobIds : delete_task(id)
    \/ Worker
    \/ lifespan
    \/ lifespan_without_tasks_db
    \/ Clustering

Spec == Init /\ [][Next]_vars

\* the requests on jobs, the worker, restarts and the runs the worker starts;
\* submissions carry no fingerprint, so the thresholds play no part; one clock
\* reading; a segmentation that returns finds no sticker, so that a run the
\* worker starts ends at once
NextSched ==
    \/ \E p \in Priorities : create_segment_task(NoHash, 8, 5, p)
    \/ \E id \in JobIds, p \in Priorities : update_priority(id, p)
    \/ \E id \in JobIds : delete_task(id)
    \/ segmentation_worker_wait
    \/ segmentation_worker_get
    \/ segment_returns(0, FALSE)
    \/ segment_raises
    \/ lifespan
    \/ run_clustering_task_begin

SpecSched == Init /\ [][NextSched]_vars

\* the same with fingerprints and thresholds: submissions at the default
\* priority, bumps to priority 0
NextDedup ==
    \/ \E h \in Hashes \cup {NoHash}, iou \in IouValues, score \in ScoreValues :
          create_segment_task(h, iou, score, DefaultPriority)
    \/ \E id \in JobIds : update_priority(id, 0)
    \/ \E id \in JobIds : delete_task(id)
    \/ segmentation_worker_wait
    \/ segmentation_worker_get
    \/ segment_returns(0, FALSE)
    \/ segment_raises
    \/ lifespan
    \/ run_clustering_task_begin

SpecDedup == Init /\ [][NextDedup]_vars

\* submissions at every priority over several clock readings, the worker,
\* restarts and the runs the worker starts; no priority bump and no delete: a
\* job has one queue entry at most, and entries are inserted in the order of
\* the job ids
NextFifo ==
    \/ Tick
    \/ \E p \in Priorities : create_segment_task(NoHash, 8, 5, p)
    \/ segmentation_worker_wait
    \/ segmentation_worker_get
    \/ segment_returns(0, FALSE)
    \/ segment_raises
    \/ lifespan
    \/ run_clustering_task_begin

SpecFifo == Init /\ [][NextFifo]_vars

\* the vector the embedding service computes from the image at path p: the
\* same at every call as long as it can open the file
VectorOf(p) == ((p - 1) % 2) + 1

\* the steps of the runs when the embedding service takes the paths of a call
\* as one batch and returns for every path the vector of its image, and
\* HDBSCAN finds no cluster; no step of a run raises
RunsThrough ==
    \/ run_clustering_task_begin
    \/ \E r \in 1..Len(runs) :
          progress_callback(r, Len(runs[r].paths_to_compute))
    \/ \E r \in 1..Len(runs) :
          run_clustering_task_embedded(r,
              [k \in 1..Len(runs[r].paths_to_compute) |->
                 VectorOf(runs[r].paths_to_compute[k])])
    \/ \E r \in 1..Len(runs) : run_clustering_task_saved(r)
    \/ \E r \in 1..Len(runs) :
          run_clustering_task_clustered(r,
              [k \in 1..Len(runs[r].sticker_paths) |-> Unclustered])
    \/ run_clustering_task_end

\* the same steps, and the steps of a run can raise
Runs ==
    \/ RunsThrough
    \/ run_clustering_task_raises

\* submissions, the worker with a segmentation that returns, the clustering
\* trigger and the runs
NextAgg ==
    \/ create_segment_task(NoHash, 8, 5, DefaultPriority)
    \/ segmentation_worker_wait
    \/ segmentation_worker_get
    \/ segment_returns(0, FALSE)
    \/ segment_returns(MaxResults, TRUE)
    \/ trigger_clustering
    \/ Runs

SpecAgg == Init /\ [][NextAgg]_vars

\* the feature cache: submissions, the worker with a segmentation that yields
\* stickers or raises, and runs whose embedding service returns one of the
\* vectors for every path of a call and whose grouping finds no cluster
NextCache ==
    \/ create_segment_task(NoHash, 8, 5, DefaultPriority)
    \/ segmentation_worker_wait
    \/ segmentation_worker_get
    \/ segment_returns(MaxResults, TRUE)
    \/ segment_raises
    \/ run_clustering_task_begin
    \/ \E r \in 1..Len(runs) :
          progress_callback(r, Len(runs[r].paths_to_compute))
    \/ \E r \in 1..Len(runs) :
          \E v \in Vectors :
             run_clustering_task_embedded(r,
                 [k \in 1..Len(runs[r].paths_to_compute) |-> v])
    \/ \E r \in 1..Len(runs) : run_clustering_task_saved(r)
    \/ \E r \in 1..Len(runs) :
          run_clustering_task_clustered(r,
              [k \in 1..Len(runs[r].sticker_paths) |-> Unclustered])
    \/ run_clustering_task_end

SpecCache == Init /\ [][NextCache]_vars

\* deletion next to the cache: submissions with or without a fingerprint,
\* deletions, the worker with a segmentation that yields stickers, and runs
\* that go through
NextPrune ==
    \/ \E h \in Hashes \cup {NoHash} :
          create_segment_task(h, 8, 5, DefaultPriority)
    \/ \E id \in JobIds : delete_task(id)
    \/ segmentation_worker_wait
    \/ segmentation_worker_get
    \/ segment_returns(MaxResults, TRUE)
    \/ RunsThrough

SpecPrune == Init /\ [][NextPrune]_vars

\* the result fields: submissions, bumps to priority 0, the worker with a
\* segmentation that yields stickers and an overlay or raises, and the runs
NextResults ==
    \/ create_segment_task(NoHash, 8, 5, DefaultPriority)
    \/ \E id \in JobIds : update_priority(id, 0)
    \/ segmentation_worker_wait
    \/ segmentation_worker_get
    \/ segment_returns(MaxResults, TRUE)
    \/ segment_raises
    \/ Runs

SpecResults == Init /\ [][NextResults]_vars

\* the event loop runs every coroutine that is ready: the worker dequeues
\* when the queue holds an entry, a scheduled run begins, and every call of
\* the segmentator returns or raises
SpecLive ==
    /\ Init
    /\ [][NextSched]_vars
    /\ WF_vars(segmentation_worker_get)
    /\ WF_vars(segment_returns(0, FALSE) \/ segment_raises)
    /\ WF_vars(run_clustering_task_begin)

\* the assembly of the result: submissions, the worker with a segmentation
\* that yields stickers, and runs whose grouping returns any labels
NextOrganize ==
    \/ create_segment_task(NoHash, 8, 5, DefaultPriority)
    \/ segmentation_worker_wait
    \/ segmentation_worker_get
    \/ segment_returns(MaxResults, TRUE)
    \/ run_clustering_task_begin
    \/ \E r \in 1..Len(runs) :
          progress_callback(r, Len(runs[r].paths_to_compute))
    \/ \E r \in 1..Len(runs) :
          run_clustering_task_embedded(r,
              [k \in 1..Len(runs[r].paths_to_compute) |-> 1])
    \/ \E r \in 1..Len(runs) : run_clustering_task_saved(r)
    \/ \E r \in 1..Len(runs) :
          \E labels \in Labels(Len(runs[r].sticker_paths)) :
             run_clustering_task_clustered(r, labels)
    \/ run_clustering_task_end

SpecOrganize == Init /\ [][NextOrganize]_vars

\* the progress of a run: submissions, the worker with a segmentation that
\* yields stickers, and runs whose embedding service reports after batches
\* of any size
NextProgress ==
    \/ create_segment_task(NoHash, 8, 5, DefaultPriority)
    \/ segmentation_worker_wait
    \/ segmentation_worker_get
    \/ segment_returns(MaxResults, TRUE)
    \/ run_clustering_task_begin
    \/ \E r \in 1..Len(runs) :
          \E c \in 1..Len(runs[r].paths_to_compute) : progress_callback(r, c)
    \/ \E r \in 1..Len(runs) :
          run_clustering_task_embedded(r,
              [k \in 1..Len(runs[r].paths_to_compute) |-> 1])
    \/ \E r \in 1..Len(runs) : run_clustering_task_saved(r)
    \/ \E r \in 1..Len(runs) :
          run_clustering_task_clustered(r,
              [k \in 1..Len(runs[r].sticker_paths) |-> Unclustered])
    \/ run_clustering_task_end

SpecProgress == Init /\ [][NextProgress]_vars

TypeOK ==
    /\ DOMAIN tasks \subseteq JobIds
    /\ \A id \in DOMAIN tasks :
         tasks[id].status \in {"pending", "processing", "completed", "failed"}
    /\ Len(queue) <= MaxRequests
    /\ pc \in {"pop", "wait", "segment", "dead"}
    /\ clock \in 0..MaxClock
    /\ aggSpawned + aggRunning <= MaxRuns

\* ------------------------------------------------------------------- claims
\* the positions of the queue entries of a job, and their priorities
EntriesOf(q, id) == {k \in 1..Len(q) : q[k].task_id = id}

Prios(id) == {queue[k].priority : k \in EntriesOf(queue, id)}

\* the entry the worker dequeues next belongs to no job, or to a job that is
\* not pending
StaleTop ==
    /\ queue # <<>>
    /\ ~(/\ InStore(HeapTop(queue).task_id)
         /\ tasks[HeapTop(queue).task_id].status = "pending")

\* the dedup index next to the job store: submissions with a fingerprint and
\* either score threshold, deletions, restarts with and without the job
\* snapshot, and the worker with a segmentation that raises
NextIndex ==
    \/ \E h \in Hashes, score \in ScoreValues :
          create_segment_task(h, 8, score, DefaultPriority)
    \/ \E id \in JobIds : delete_task(id)
    \/ lifespan
    \/ lifespan_without_tasks_db
    \/ segmentation_worker_wait
    \/ segmentation_worker_get
    \/ segment_raises

SpecIndex == Init /\ [][NextIndex]_vars

\* deletions next to the worker: submissions, deletions, the worker with a
\* segmentation that yields stickers or raises, and restarts
NextWriteBack ==
    \/ create_segment_task(NoHash, 8, 5, DefaultPriority)
    \/ \E id \in JobIds : delete_task(id)
    \/ segmentation_worker_wait
    \/ segmentation_worker_get
    \/ segment_returns(MaxResults, TRUE)
    \/ segment_raises
    \/ lifespan

SpecWriteBack == Init /\ [][NextWriteBack]_vars

\* the grouping of a run: submissions that arrive while no run is scheduled
\* or in flight, the worker with a segmentation that yields stickers, and
\* runs that go through with any labels HDBSCAN can give
NextPartition ==
    \/ (aggSpawned + aggRunning = 0
          /\ create_segment_task(NoHash, 8, 5, DefaultPriority))
    \/ segmentation_worker_wait
    \/ segmentation_worker_get
    \/ segment_returns(MaxResults, TRUE)
    \/ run_clustering_task_begin
    \/ \E r \in 1..Len(runs) :
          progress_callback(r, Len(runs[r].paths_to_compute))
    \/ \E r \in 1..Len(runs) :
          run_clustering_task_embedded(r,
              [k \in 1..Len(runs[r].paths_to_compute) |->
                 VectorOf(runs[r].paths_to_compute[k])])
    \/ \E r \in 1..Len(runs) : run_clustering_task_saved(r)
    \/ \E r \in 1..Len(runs) :
          \E labels \in Labels(Len(runs[r].sticker_paths)) :
             run_clustering_task_clustered(r, labels)
    \/ run_clustering_task_end

SpecPartition == Init /\ [][NextPartition]_vars

\* C1: the status of a job only moves pending -> processing -> {completed,
\* failed}, restore apart; the clause stated here: in no step does a completed
\* job that stays in the store become failed or pending.
C1_CompletedStays ==
    [][\A id \in DOMAIN tasks \cap DOMAIN tasks' :
         tasks[id].status = "completed" => tasks'[id].status = "completed"]_vars

\* C2: at most one clustering run is in progress at any time: no run begins
\* while another has begun and has not yet reached completed or failed.
C2_SingleFlight == aggRunning <= 1

\* C3: when the worker dequeues an entry whose job is absent or not pending,
\* no job record changes, in memory or in the snapshot, the segmentator is not
\* called and the worker goes on to the next pop.
C3_DiscardNoOp ==
    [][(segmentation_worker_get /\ StaleTop)
         => /\ tasks' = tasks
            /\ tasks_db' = tasks_db
            /\ cur' = cur
            /\ pc' = "pop"]_vars

C5_RestoreRequeues ==
    [][lifespan
         => /\ pc' = "pop"
            /\ \A id \in DOMAIN tasks_db :
                 tasks_db[id].status \in {"pending", "processing"}
                   => /\ id \in DOMAIN tasks'
                      /\ tasks'[id].status = "pending"
                      /\ Cardinality(EntriesOf(queue', id)) = 1
                      /\ \A k \in EntriesOf(queue', id) :
                           queue'[k].priority = DefaultPriority]_vars

\* the process has just restarted on a snapshot with a processing and a
\* pending job
C5_Witness ==
    /\ resp.op = "startup"
    /\ pc = "pop"
    /\ \E a, b \in DOMAIN tasks_db :
         /\ tasks_db[a].status = "processing"
         /\ tasks_db[b].status = "pending"
         /\ tasks[a].status = "pending"
         /\ tasks[b].status = "pending"
         /\ Cardinality(EntriesOf(queue, a)) = 1
         /\ Cardinality(EntriesOf(queue, b)) = 1
    /\ Len(queue) = 2

\* C6: restore leaves every job that the snapshot holds as completed or failed
\* as it is and pushes no queue entry for it.
C6_RestoreLeavesFinished ==
    [][lifespan
         => \A id \in DOMAIN tasks_db :
              tasks_db[id].status \in {"completed", "failed"}
                => /\ id \in DOMAIN tasks'
                   /\ tasks'[id] = tasks_db[id]
                   /\ EntriesOf(queue', id) = {}]_vars

\* the process has just restarted on a snapshot with a completed and a failed
\* job
C6_Witness ==
    /\ resp.op = "startup"
    /\ pc = "pop"
    /\ queue = <<>>
    /\ \E a, b \in DOMAIN tasks_db :
         /\ tasks_db[a].status = "completed"
         /\ tasks_db[b].status = "failed"
         /\ tasks[a] = tasks_db[a]
         /\ tasks[b] = tasks_db[b]

\* C7 as stated: if A is submitted with priority 2 and B is submitted next with
\* priority 0, the worker moves B to processing before A; so A is still
\* pending when B is submitted.
C7_Original ==
    [][(/\ resp.op = "submit"
        /\ resp.result = "queued"
        /\ resp.priority = 2
        /\ resp.task_id \in DOMAIN tasks
        /\ \E h \in Hashes \cup {NoHash}, iou \in IouValues \cup {8},
              score \in ScoreValues \cup {5} :
             create_segment_task(h, iou, score, 0)
        /\ resp'.result = "queued")
         => tasks[resp.task_id].status = "pending"]_vars

\* C7 as amended: while A is pending with queue entries of priority 2 only and
\* B is pending with a queue entry of priority 0, no step moves A to
\* processing: a worker that dequeues then takes B before A.
C7_Amended ==
    [][\A a, b \in DOMAIN tasks :
         (/\ tasks[a].status = "pending"
          /\ tasks[b].status = "pending"
          /\ Prios(a) = {2}
          /\ 0 \in Prios(b))
           => ~(a \in DOMAIN tasks' /\ tasks'[a].status = "processing")]_vars

\* B, submitted last and with priority 0, is in processing while A, submitted
\* before it, still waits with its entry of priority 2
C7_Witness ==
    /\ resp.op = "submit"
    /\ resp.result = "queued"
    /\ resp.priority = 0
    /\ resp.task_id \in DOMAIN tasks
    /\ tasks[resp.task_id].status = "processing"
    /\ \E a \in DOMAIN tasks :
         /\ a < resp.task_id
         /\ tasks[a].status = "pending"
         /\ Prios(a) = {2}

\* C8: every pop returns an entry whose key (priority, timestamp) is minimal
\* among the entries of the queue, and among entries of equal priority the
\* one inserted first.  Without priority bumps entries are inserted in the
\* order of the job ids.
C8_PopOrder ==
    [][segmentation_worker_get
         => \A k \in 1..Len(queue) :
              /\ ~Less(queue[k], HeapTop(queue))
              /\ queue[k].priority = HeapTop(queue).priority
                 => HeapTop(queue).task_id <= queue[k].task_id]_vars

\* C9 as stated: after a job that was submitted with a fingerprint has
\* completed and is deleted, the dedup index holds no record for that
\* fingerprint.
C9_Original ==
    [][\A id \in DOMAIN tasks, h \in Hashes :
         (/\ delete_task(id)
          /\ tasks[id].status = "completed"
          /\ tasks[id].image_path = h)
           => (h \notin DOMAIN file_hashes' \/ file_hashes'[h] = None)]_vars

\* C9 as amended: after a job is deleted no dedup record points at it, and
\* the record of its fingerprint, when it was that of the job, is gone; a
\* submission is never answered with a job that is not in the store, and
\* one whose fingerprint has no record creates a job with a new id, pending
\* and queued.
C9_Amended ==
    [][/\ \A id \in DOMAIN tasks :
            delete_task(id)
              => /\ \A h \in DOMAIN file_hashes' : file_hashes'[h].task_id # id
                 /\ \A h \in HashOf(id) : file_hashes'[h] = None
       /\ \A h \in Hashes, iou \in IouValues, score \in ScoreValues,
             p \in Priorities :
            create_segment_task(h, iou, score, p)
              => /\ resp'.result = "reused" => resp'.task_id \in DOMAIN tasks
                 /\ ExistingData(h) = None
                    => /\ resp'.result = "queued"
                       /\ resp'.task_id = nextId + 1
                       /\ resp'.task_id \notin DOMAIN tasks
                       /\ tasks'[resp'.task_id].status = "pending"
                       /\ EntriesOf(queue', resp'.task_id) # {}]_vars

\* the only job there was had a record under h1, went through the worker and
\* has just been deleted: the record is gone
C9_Witness ==
    /\ resp = Response("delete", 1, "deleted", NoPriority, None)
    /\ nextId = 1
    /\ tasks = <<>>
    /\ "h1" \in DOMAIN file_hashes
    /\ file_hashes["h1"] = None
    /\ hash_db = file_hashes
    /\ results_dir
    /\ queue = <<>>
    /\ pc = "wait"

\* C10: when the segmentator raises, the job ends failed with the message
\* stored and the worker goes on to the next pop.
C10_FailureIsolation ==
    [][segment_raises
         => /\ pc' = "pop"
            /\ cur \in DOMAIN tasks
               => /\ tasks'[cur].status = "failed"
                  /\ tasks'[cur].error # "none"]_vars

\* C11: when a run fails, at its first line for want of the results directory
\* or in any executor call, the status becomes failed and the stored result,
\* in memory and on disk, is what it was when the run began.
C11_FailedRunKeepsResult ==
    [][/\ (run_clustering_task_begin /\ ~results_dir)
            => /\ clustering_status' = "failed"
               /\ UNCHANGED <<cluster_results, cluster_results_db>>
       /\ \A r \in 1..Len(runs) :
            (run_clustering_task_raises /\ RunRaises(r))
              => /\ clustering_status' = "failed"
                 /\ cluster_results' = runs[r].before[1]
                 /\ cluster_results_db' = runs[r].before[2]]_vars

\* C12: a trigger request that arrives while the status is running schedules
\* no run, starts none, changes nothing of the clustering state and answers
\* already_running.
C12_TriggerWhileRunning ==
    [][(trigger_clustering /\ clustering_status = "running")
         => /\ resp'.result = "already_running"
            /\ UNCHANGED <<aggSpawned, aggRunning, clustering_status,
                           clusterVars>>]_vars

\* a trigger request has just been answered already_running, a run being
\* suspended in an executor call
C12_Witness ==
    /\ resp.op = "cluster"
    /\ resp.result = "already_running"
    /\ clustering_status = "running"
    /\ Len(runs) >= 1
    /\ aggSpawned = 0

\* C13: a failed job gets no new queue entry and leaves failed in no step but
\* a priority bump of that job; restarts included.
C13_NoAutomaticRetry ==
    [][\A id \in DOMAIN tasks :
         (/\ tasks[id].status = "failed"
          /\ ~(\E p \in Priorities : update_priority(id, p)))
           => /\ id \in DOMAIN tasks' => tasks'[id].status = "failed"
              /\ Cardinality(EntriesOf(queue', id))
                   <= Cardinality(EntriesOf(queue, id))]_vars

\* C14: a run that finds no sticker ends at once with status completed and a
\* result with no group, nothing ungrouped and both totals zero, and waits
\* for no collaborator: neither the embedding service nor the grouping is
\* called.
C14_RunOverNothing ==
    [][(run_clustering_task_begin /\ results_dir /\ stickers = {})
         => /\ clustering_status' = "completed"
            /\ cluster_results'.groups = <<>>
            /\ cluster_results'.ungrouped = <<>>
            /\ cluster_results'.total_grouped = 0
            /\ cluster_results'.total_ungrouped = 0
            /\ UNCHANGED <<runs, aggRunning, embedding_cache>>]_vars

\* a run over no sticker has ended
C14_Witness ==
    /\ results_dir
    /\ stickers = {}
    /\ clustering_status = "completed"
    /\ cluster_results = EmptyResult
    /\ runs = <<>>
    /\ aggSpawned = 0

\* C15: when every sticker path a run collects has a vector in the cache, the
\* run does not call the embedding service: it goes straight to the grouping,
\* the cache stays as it is, and row i of its matrix is the cached vector of
\* path i.
C15_AllCached ==
    [][(/\ run_clustering_task_begin
        /\ results_dir
        /\ stickers # {}
        /\ stickers \subseteq DOMAIN embedding_cache)
         => /\ Len(runs') = Len(runs) + 1
            /\ LET run == runs'[Len(runs')] IN
               /\ run.pc = "hdbscan"
               /\ run.paths_to_compute = <<>>
               /\ \A i \in 1..Len(run.sticker_paths) :
                    run.final_embeddings[i] = embedding_cache[run.sticker_paths[i]]
            /\ UNCHANGED <<embedding_cache, embedding_cache_db>>]_vars

\* a run found two paths cached with different vectors and waits for the
\* grouping
C15_Witness ==
    \E r \in 1..Len(runs) :
      /\ runs[r].pc = "hdbscan"
      /\ runs[r].paths_to_compute = <<>>
      /\ Len(runs[r].sticker_paths) = 2
      /\ runs[r].final_embeddings = <<1, 2>>
      /\ \A i \in 1..2 :
           /\ runs[r].sticker_paths[i] \in DOMAIN embedding_cache
           /\ embedding_cache[runs[r].sticker_paths[i]] = runs[r].final_embeddings[i]

\* C16: deleting a job removes the dedup record that points at it and leaves
\* the feature cache as it is, in memory and on disk: every cached path keeps
\* its vector, the paths of the stickers of the deleted job included.
C16_DeleteKeepsCache ==
    [][\A id \in DOMAIN tasks :
         delete_task(id)
           => /\ \A h \in DOMAIN file_hashes' : file_hashes'[h].task_id # id
              /\ UNCHANGED <<embedding_cache, embedding_cache_db>>]_vars

\* a completed job whose sticker has a cached vector and which had a dedup
\* record has just been deleted: its files and its record are gone, the
\* vector is still cached
C16_Witness ==
    /\ resp.op = "delete"
    /\ resp.result = "deleted"
    /\ resp.task_id \notin DOMAIN tasks
    /\ resp.task_id \notin stickers
    /\ resp.task_id \in DOMAIN embedding_cache
    /\ "h1" \in DOMAIN file_hashes
    /\ file_hashes["h1"] = None

C18_DeleteReportsPresence ==
    [][\A id \in JobIds :
         delete_task(id)
           => IF id \in DOMAIN tasks
              THEN /\ resp'.result = "deleted"
                   /\ DOMAIN tasks' = DOMAIN tasks \ {id}
                   /\ \A other \in DOMAIN tasks' : tasks'[other] = tasks[other]
              ELSE /\ resp'.result = "not_found"
                   /\ UNCHANGED <<tasks, tasks_db, file_hashes, hash_db,
                                  queue, unfinished_tasks, stickers>>]_vars

\* a delete of an id that is not in the store has been answered not found,
\* next to a job that has a dedup record and a queue entry
C18_Witness ==
    /\ resp.op = "delete"
    /\ resp.result = "not_found"
    /\ resp.task_id \notin DOMAIN tasks
    /\ tasks # <<>>
    /\ queue # <<>>
    /\ "h1" \in DOMAIN file_hashes
    /\ file_hashes["h1"].task_id \in DOMAIN tasks

\* C19: the worker calls task_done once for each entry it dequeues: the count
\* of unfinished puts is the number of entries queued plus the one being
\* segmented, task_done never raises and the worker coroutine never ends.
C19_TaskDoneOncePerEntry ==
    /\ pc # "dead"
    /\ unfinished_tasks = Len(queue) + (IF pc = "segment" THEN 1 ELSE 0)

\* C20: when the worker has finished the job it passed to the segmentator,
\* with success or failure, it schedules one clustering run if the queue is
\* empty and no job is processing, and none otherwise.
C20_IdleTrigger ==
    [][(\/ \E n \in 0..MaxResults, overlay \in BOOLEAN :
             segment_returns(n, overlay)
        \/ segment_raises)
         => IF /\ queue = <<>>
               /\ \A id \in DOMAIN tasks' : tasks'[id].status # "processing"
            THEN aggSpawned' = aggSpawned + 1
            ELSE aggSpawned' = aggSpawned]_vars

\* how many times item x is in the queue q
Count(q, x) == Cardinality({k \in 1..Len(q) : q[k] = x})

C22_BumpIgnored ==
    [][\A id \in DOMAIN tasks, p \in Priorities :
         (/\ update_priority(id, p)
          /\ tasks[id].status \in {"completed", "processing"})
           => /\ UNCHANGED <<tasks, queue, unfinished_tasks, tasks_db, cur, pc>>
              /\ resp'.result = "updated"]_vars

\* the only job was bumped while the segmentator worked on it: no entry was
\* pushed
C22_Witness ==
    /\ resp.op = "priority"
    /\ resp.result = "updated"
    /\ requests = 2
    /\ nextId = 1
    /\ pc = "segment"
    /\ cur = resp.task_id
    /\ tasks[cur].status = "processing"
    /\ queue = <<>>
    /\ unfinished_tasks = 1

\* C23: every status the worker gives a job is in the snapshot before the
\* worker dequeues again: whenever the worker is suspended on the empty queue,
\* every job has the same status in tasks.json as in memory.
C23_WorkerPersists ==
    pc = "wait"
      => \A id \in DOMAIN tasks :
           /\ id \in DOMAIN tasks_db
           /\ tasks_db[id].status = tasks[id].status

\* C24: in every state a job that is pending, processing or failed has no
\* result descriptor and no overlay: the result fields are filled on
\* completed jobs only.
C24_ResultsOnlyWhenCompleted ==
    \A id \in DOMAIN tasks :
      tasks[id].status # "completed"
        => /\ tasks[id].result_paths = 0
           /\ tasks[id].overlay_path = FALSE

\* C25: the clustering status follows idle -> running -> {completed, failed}:
\* every run sets the status to running when it begins, and the status turns
\* completed or failed in a step that finds it running only.
C25_StatusMachine ==
    [][/\ run_clustering_task_begin => clustering_status' = "running"
       /\ (/\ clustering_status' \in {"completed", "failed"}
           /\ clustering_status' # clustering_status)
            => clustering_status = "running"]_vars

\* C26: with a fair worker and a segmentator that always returns or raises,
\* every pending job is eventually completed or failed, or deleted, whatever
\* the submissions, bumps and deletions.
C26_PendingEnds ==
    \A id \in JobIds :
      (id \in DOMAIN tasks /\ tasks[id].status = "pending")
        ~> (\/ id \notin DOMAIN tasks
            \/ tasks[id].status \in {"completed", "failed"})

\* the jobs that are processing
Processing == {id \in DOMAIN tasks : tasks[id].status = "processing"}

\* C27: at most one job is processing at any time, and it is the job the
\* worker has passed to the segmentator; the worker moves a job to processing
\* only when no job is processing.
C27_OneProcessing ==
    /\ Cardinality(Processing) <= 1
    /\ \A id \in Processing : pc = "segment" /\ cur = id

\* the worker has passed a job to the segmentator after it completed an
\* earlier one, a third job waiting
C27_Witness ==
    /\ pc = "segment"
    /\ Processing = {cur}
    /\ \E a, b \in DOMAIN tasks :
         /\ a < cur
         /\ tasks[a].status = "completed"
         /\ tasks[b].status = "pending"
         /\ EntriesOf(queue, b) # {}

\* the ids handed out whose job is not in the store: the deleted jobs
Deleted == (1..nextId) \ DOMAIN tasks

\* C28: a job deleted while it is pending is never passed to the segmentator:
\* a delete takes the job out of the store and of the snapshot, a deleted job
\* never comes back, and the worker passes on jobs of the store only, so an
\* entry dequeued after the delete is dropped; a delete of the job that is
\* processing leaves the segmentation call in flight.
C28_DeletedNotSegmented ==
    [][/\ \A id \in DOMAIN tasks :
            delete_task(id)
              => /\ id \notin DOMAIN tasks'
                 /\ id \notin DOMAIN tasks_db'
                 /\ tasks[id].status = "processing"
                    => /\ pc = "segment" /\ cur = id
                       /\ pc' = "segment" /\ cur' = id
       /\ Deleted \subseteq Deleted'
       /\ (segmentation_worker_get /\ pc' = "segment")
            => /\ cur' \notin Deleted
               /\ cur' = HeapTop(queue).task_id
       /\ (segmentation_worker_get /\ HeapTop(queue).task_id \in Deleted)
            => /\ pc' # "segment"
               /\ cur' = cur]_vars

\* job 1 was deleted while it was pending; the worker has since dequeued its
\* entry and dropped it, and has passed job 2 to the segmentator
C28_Witness ==
    /\ resp.op = "delete"
    /\ resp.result = "deleted"
    /\ resp.task_id = 1
    /\ nextId = 2
    /\ requests = 3
    /\ Deleted = {1}
    /\ queue = <<>>
    /\ pc = "segment"
    /\ cur = 2

\* the elements of a sequence
Range(s) == {s[k] : k \in 1..Len(s)}

\* C29: for every list of paths and labels the groups of the assembled
\* result are in descending order of their member count, groups of equal
\* count in ascending order of their id; every path labelled -1 is in the
\* ungrouped list and in no group, and no group has the id -1.
C29_GroupOrder ==
    [][\A r \in 1..Len(runs) :
         (run_clustering_task_end /\ RunEnds(r))
           => LET sticker_paths == runs[r].sticker_paths
                  labels == runs[r].labels
                  groups == cluster_results'.groups
              IN  /\ \A i, j \in 1..Len(groups) :
                       i < j
                         => \/ groups[i].count > groups[j].count
                            \/ /\ groups[i].count = groups[j].count
                               /\ groups[i].id < groups[j].id
                  /\ \A k \in 1..Len(sticker_paths) :
                       labels[k] = Unclustered
                         => /\ sticker_paths[k] \in Range(cluster_results'.ungrouped)
                            /\ \A i \in 1..Len(groups) :
                                 sticker_paths[k] \notin Range(groups[i].sticker_paths)
                  /\ \A i \in 1..Len(groups) : groups[i].id # Unclustered]_vars

\* the paths of run that have no vector in the cache, in the order of the list
MissingOf(sticker_paths) == SelectSeq(sticker_paths, Missing)

\* C30: a run calls the embedding service with the missing paths only; row i
\* of its matrix is the vector of path i, the cached one for a cached path and
\* the k-th output for the k-th missing path; and when the save of the cache
\* has returned, every vector the run computed is in the cache, in memory and
\* on disk.
C30_ResolveMissing ==
    [][/\ (run_clustering_task_begin /\ results_dir /\ stickers # {})
            => LET run == runs'[Len(runs')] IN
               /\ run.paths_to_compute = MissingOf(run.sticker_paths)
               /\ \A i \in 1..Len(run.sticker_paths) :
                    run.sticker_paths[i] \in DOMAIN embedding_cache
                      => run.final_embeddings[i]
                           = embedding_cache[run.sticker_paths[i]]
       /\ \A r \in 1..Len(runs), v \in Vectors :
            LET run == runs[r]
                computed == [k \in 1..Len(run.paths_to_compute) |-> v]
            IN  run_clustering_task_embedded(r, computed)
                  => \A i \in 1..Len(run.sticker_paths) :
                       IF \E k \in 1..Len(run.paths_to_compute) :
                            run.paths_to_compute[k] = run.sticker_paths[i]
                       THEN /\ runs'[r].final_embeddings[i] = v
                            /\ embedding_cache'[run.sticker_paths[i]] = v
                       ELSE runs'[r].final_embeddings[i] = run.final_embeddings[i]
       /\ \A r \in 1..Len(runs) :
            run_clustering_task_saved(r)
              => \A k \in 1..Len(runs[r].paths_to_compute) :
                   LET p == runs[r].paths_to_compute[k]
                       row == runs[r].final_embeddings[
                                  IndexOf(runs[r].sticker_paths, p)]
                   IN  /\ p \in DOMAIN embedding_cache'
                       /\ embedding_cache'[p] = row
                       /\ p \in DOMAIN embedding_cache_db'
                       /\ embedding_cache_db'[p] = row]_vars

\* C31: while a run is in progress the progress count never decreases and
\* never exceeds the total: a run that begins sets it to the number of its
\* cached paths, and each report of the embedding service sets it to that
\* number plus the count of the rows done so far.
C31_ProgressMonotone ==
    [][/\ (runs # <<>> /\ runs' # <<>>)
            => clustering_progress'.current >= clustering_progress.current
       /\ runs' # <<>>
            => clustering_progress'.current <= clustering_progress'.total
       /\ (run_clustering_task_begin /\ results_dir /\ stickers # {})
            => LET run == runs'[Len(runs')] IN
               /\ clustering_progress'.total = Len(run.sticker_paths)
               /\ clustering_progress'.current
                    = Len(run.sticker_paths) - Len(run.paths_to_compute)
       /\ \A r \in 1..Len(runs), c \in 1..MaxRequests :
            progress_callback(r, c)
              => clustering_progress'.current
                   = (Len(runs[r].sticker_paths)
                        - Len(runs[r].paths_to_compute)) + c]_vars

\* C32: a vector that is in the cache stays there as it is: no step removes
\* or overwrites the entry of a path, and a run that begins passes no cached
\* path to the embedding service; nothing the requests reach resets the
\* cache.
C32_CacheWriteOnce ==
    [][/\ \A p \in DOMAIN embedding_cache :
            /\ p \in DOMAIN embedding_cache'
            /\ embedding_cache'[p] = embedding_cache[p]
       /\ (run_clustering_task_begin /\ results_dir /\ stickers # {})
            => LET run == runs'[Len(runs')] IN
               \A k \in 1..Len(run.paths_to_compute) :
                 run.paths_to_compute[k] \notin DOMAIN embedding_cache]_vars

\* C33: when the segmentator returns no sticker for a job, the worker moves
\* the job to failed and stores an error message; the job is not completed.
C33_EmptyResultFails ==
    [][\A overlay \in BOOLEAN :
         (segment_returns(0, overlay) /\ cur \in DOMAIN tasks)
           => /\ tasks'[cur].status = "failed"
              /\ tasks'[cur].error # "none"]_vars

\* C34: in every state every pending job of the store has at least one
\* queue entry; the worker dequeues the entry of a pending job and moves the
\* job to processing in one step, so no state lies between the two.
C34_PendingHasEntry ==
    \A id \in DOMAIN tasks :
      tasks[id].status = "pending" => EntriesOf(queue, id) # {}

\* a job that failed has been bumped: it is pending again, with a new entry
\* as its only one
C34_Witness ==
    /\ resp.op = "priority"
    /\ resp.result = "updated"
    /\ resp.task_id \in DOMAIN tasks
    /\ tasks[resp.task_id].status = "pending"
    /\ tasks[resp.task_id].error = "segment"
    /\ Cardinality(EntriesOf(queue, resp.task_id)) = 1
    /\ pc = "wait"

\* C35: a submission with a fingerprint is never answered reused with a job
\* that is not in the job store, whatever the dedup index holds: the record
\* of a deleted job, or a record loaded from a dedup snapshot whose job
\* snapshot is gone.
C35_ReusedIsStored ==
    [][\A h \in Hashes, iou \in IouValues, score \in ScoreValues,
          p \in Priorities :
         (create_segment_task(h, iou, score, p) /\ resp'.result = "reused")
           => /\ resp'.task_id \in DOMAIN tasks
              /\ resp'.task_id \in DOMAIN tasks']_vars

\* a submission found a record with its own thresholds that points at a job
\* the store does not hold, and was answered with a new job
C35_Witness ==
    /\ resp.op = "submit"
    /\ resp.result = "queued"
    /\ resp.found # None
    /\ resp.found.task_id # resp.task_id
    /\ resp.found.task_id \notin DOMAIN tasks
    /\ resp.task_id \in DOMAIN tasks
    /\ LET saved == file_hashes[tasks[resp.task_id].image_path] IN
       /\ saved.task_id = resp.task_id
       /\ saved.iou = resp.found.iou
       /\ saved.score = resp.found.score

\* C36: in every state a job has an error message exactly when its status is
\* failed; a job that failed, was pushed again and completed has none.
C36_ErrorIffFailed ==
    \A id \in DOMAIN tasks :
      (tasks[id].error # "none") <=> (tasks[id].status = "failed")

\* C37: a deleted job never comes back, in the job store or in the snapshot
\* of it: when the job the worker is processing has been deleted, the
\* completion or the failure the worker writes afterwards changes no job of
\* the store and the snapshot written holds the jobs of the store only.
C37_DeletedStaysDeleted ==
    [][/\ \A id \in Deleted :
            /\ id \notin DOMAIN tasks'
            /\ id \notin DOMAIN tasks_db'
       /\ (/\ \/ segment_raises
              \/ \E n \in 0..MaxResults, overlay \in BOOLEAN :
                    segment_returns(n, overlay)
           /\ cur \in Deleted)
            => /\ tasks' = tasks
               /\ DOMAIN tasks_db' \subseteq DOMAIN tasks]_vars

\* job 1 was deleted while the worker was processing it: its stickers were
\* written after the delete, the worker has let go of it, and neither the
\* store nor the snapshot holds it
C37_Witness ==
    /\ 1 \in Deleted
    /\ 1 \in stickers
    /\ 1 \notin DOMAIN tasks_db
    /\ cur = NoId
    /\ pc # "segment"

\* C38: for every list of N paths and N labels the assembled result is a
\* partition of the paths: each path is at exactly one place, in the member
\* list of one group or in the ungrouped list, and nothing else is at any
\* place; the count of each group is the length of its member list; and
\* total_grouped + total_ungrouped = N.
C38_Partition ==
    [][\A r \in 1..Len(runs) :
         (run_clustering_task_end /\ RunEnds(r))
           => LET sticker_paths == runs[r].sticker_paths
                  result == cluster_results'
                  groups == result.groups
                  places ==
                    {<<0, i>> : i \in 1..Len(result.ungrouped)}
                      \cup UNION {{<<g, i>> : i \in 1..Len(groups[g].sticker_paths)} :
                                    g \in 1..Len(groups)}
                  at(pl) == IF pl[1] = 0 THEN result.ungrouped[pl[2]]
                            ELSE groups[pl[1]].sticker_paths[pl[2]]
              IN  /\ \A k \in 1..Len(sticker_paths) :
                       Cardinality({pl \in places : at(pl) = sticker_paths[k]}) = 1
                  /\ \A pl \in places : at(pl) \in Range(sticker_paths)
                  /\ \A g \in 1..Len(groups) :
                       groups[g].count = Len(groups[g].sticker_paths)
                  /\ result.total_ungrouped = Len(result.ungrouped)
                  /\ result.total_grouped + result.total_ungrouped
                       = Len(sticker_paths)]_vars

\* a run over three stickers with the labels 0, -1, 0 has ended: the first and
\* the third are the one group, the second is ungrouped
C38_Witness ==
    /\ clustering_status = "completed"
    /\ cluster_results.groups = <<[id |-> 0, sticker_paths |-> <<1, 3>>,
                                   count |-> 2]>>
    /\ cluster_results.ungrouped = <<2>>
    /\ cluster_results.total_grouped = 2
    /\ cluster_results.total_ungrouped = 1
    /\ cluster_results_db = cluster_results

====
